---- MODULE Spec2Model ----
(***************************************************************************)
(* Fund-flow analysis of one Ethereum address: AnalyzeBeneficiary and      *)
(* AnalyzePayer (internal/analyzer).  One analysis call starts three       *)
(* fetch goroutines in an errgroup, waits for them, scans the three        *)
(* fetched lists (normal, internal, token) into a map keyed by the         *)
(* counterparty address and converts the map to a slice.                   *)
(***************************************************************************)
EXTENDS Integers, Sequences, FiniteSets, TLC

(***************************************************************************)
(* Bounds of the model.                                                    *)
(***************************************************************************)
\* records the three gateway calls of one analysis call return, all lists
\* together, when the call is followed from its start
MaxFetched == 1

\* records in the three lists, all together, when the call is followed from
\* the point where the three fetches have joined
MaxTotal == 3

\* the nil error
Nil == [nil |-> TRUE]

(***************************************************************************)
(* Strings.  Addresses are hex strings; the letters of the addresses used  *)
(* here are a/A and b/B.  strings.EqualFold compares under simple case     *)
(* folding, which for these ASCII strings is lower-casing.                 *)
(***************************************************************************)
Fold(s) ==
    CASE s = "0xA" -> "0xa"
      [] s = "0xB" -> "0xb"
      [] OTHER -> s

\* mutant of EqualFold: the strings compared with ==
EqualExact(s, t) == s = t

EqualFold(s, t) == Fold(s) = Fold(t)

(***************************************************************************)
(* float64.  The amounts that occur are non-negative whole numbers of      *)
(* Ether; [hi |-> h, lo |-> l] is the number h * 2^53 + l, with l far      *)
(* below 2^53.  Below 2^53 (hi = 0) every whole number is a float64; from  *)
(* 2^53 on the 53-bit mantissa leaves a spacing of 2^BitLen(hi) between    *)
(* neighbouring float64 values and a sum is rounded to the nearest of      *)
(* them, a tie going to the even mantissa (IEEE 754 round-to-nearest-even, *)
(* the rounding of Go's float64 +).                                        *)
(***************************************************************************)
RECURSIVE BitLen(_)
BitLen(n) == IF n = 0 THEN 0 ELSE 1 + BitLen(n \div 2)

RECURSIVE Pow2(_)
Pow2(n) == IF n = 0 THEN 1 ELSE 2 * Pow2(n - 1)

Zero == [hi |-> 0, lo |-> 0]

RoundFloat64(h, l) ==
    IF h = 0 THEN [hi |-> 0, lo |-> l]
    ELSE LET q    == Pow2(BitLen(h))
             r    == l % q
             down == l - r
         IN  IF 2 * r < q THEN [hi |-> h, lo |-> down]
             ELSE IF 2 * r > q THEN [hi |-> h, lo |-> down + q]
             ELSE IF (down \div q) % 2 = 0 THEN [hi |-> h, lo |-> down]
             ELSE [hi |-> h, lo |-> down + q]

\* +Inf, the float64 of a value beyond the largest finite one; the amounts
\* are non-negative, so that neither -Inf nor NaN occurs
PosInf == [hi |-> -1, lo |-> 0]

IsInf(x) == x.hi < 0

\* x + y of two float64 values: the exact sum, rounded once
FloatAdd(x, y) ==
    IF IsInf(x) \/ IsInf(y) THEN PosInf
    ELSE RoundFloat64(x.hi + y.hi, x.lo + y.lo)

(***************************************************************************)
(* The records of the explorer API.  Transaction has an isError field,     *)
(* TokenTransfer has none.                                                 *)
(***************************************************************************)
OneEther == "1000000000000000000"
BigValue == "9007199254740992000000000000000000"
\* a value string big.Float parses as infinity
InfValue == "Inf"
\* value strings big.Float does not parse: one without a digit, and one
\* that is a number followed by letters
JunkValue == "abc"
PrefixedValue == "1000000000000000000abc"

Tx(h, ts, f, t, v, e) ==
    [hash |-> h, timeStamp |-> ts, from |-> f, to |-> t, value |-> v, isError |-> e]

\* the Transaction records a txlist / txlistinternal response can carry
Transactions ==
    { Tx("0xh1", "1690000000",   "0xa", "0xb", OneEther, "0"),
      Tx("0xh2", "not-a-number", "0xA", "0xB", OneEther, "0"),
      Tx("0xh3", "1690000000",   "0xa", "0xB", BigValue, "0"),
      Tx("0xh4", "1690000000",   "0xa", "0xb", OneEther, "1"),
      Tx("0xh5", "1690000000",   "0xb", "0xa", OneEther, "0"),
      Tx("0xh6", "not-a-number", "0xB", "0xA", OneEther, "0"),
      Tx("0xh7", "1690000000",   "0xB", "0xa", BigValue, "0"),
      Tx("0xh8", "1690000000",   "0xb", "0xa", OneEther, "1") }

\* the TokenTransfer records a tokentx response can carry
TokenTransfers ==
    { [hash |-> r.hash, timeStamp |-> r.timeStamp, from |-> r.from, to |-> r.to,
       value |-> r.value] : r \in { t \in Transactions : t.isError = "0" } }

Kinds == {"normalTxs", "internalTxs", "tokenTransfers"}

RecordsOf(k) == IF k = "tokenTransfers" THEN TokenTransfers ELSE Transactions

\* the sequences over S of length at most n
SeqsUpTo(S, n) == UNION { [1..m -> S] : m \in 0..n }

(***************************************************************************)
(* The explorer gateway (etherscan.Client).  A response body is JSON with  *)
(* the fields status, message and result, or it is not JSON at all; the    *)
(* result is an array of records, a string or null.  resultArray is the    *)
(* array when resultType is "array" and resultString the string when it is *)
(* "string".                                                               *)
(***************************************************************************)
maxRetries == 3

NoTransactionsFound == "No transactions found"

MaxRateLimitReached == "Max rate limit reached"

Body(st, msg, ty, arr, str) ==
    [valid |-> TRUE, status |-> st, message |-> msg, resultType |-> ty,
     resultArray |-> arr, resultString |-> str]

\* a body that is no JSON, such as the HTML page of a proxy
NotJSON ==
    [valid |-> FALSE, status |-> "", message |-> "", resultType |-> "null",
     resultArray |-> <<>>, resultString |-> ""]

NoRecordsBody == Body("0", NoTransactionsFound, "array", <<>>, "")

RateLimitBody == Body("0", "NOTOK", "string", <<>>, MaxRateLimitReached)

\* the failure responses of the explorer other than the two above
FailureBodies ==
    { Body("0", "NOTOK", "string", <<>>, "Invalid API Key"),
      Body("0", "Query Timeout occured", "null", <<>>, "") }

\* the bodies a request for kind k can be answered with, a success
\* carrying at most n records
Bodies(k, n) ==
    { Body("1", "OK", "array", list, "") : list \in SeqsUpTo(RecordsOf(k), n) }
    \cup {NoRecordsBody, RateLimitBody, NotJSON} \cup FailureBodies

\* the bodies the fetches of an analysis call are answered with: of the
\* failures, the rate-limit answer
AnalysisBodies(k, n) ==
    { b \in Bodies(k, n) : b.status = "1" \/ b \in {NoRecordsBody, RateLimitBody} }

\* json.Unmarshal into TransactionResponse / TokenTransferResponse, whose
\* Result is a slice: nil error
UnmarshalsAsList(body) == body.valid /\ body.resultType \in {"array", "null"}

\* json.Unmarshal into the errorResult struct, whose Result is a string:
\* nil error
UnmarshalsAsString(body) == body.valid /\ body.resultType \in {"string", "null"}

\* an error value: its message and the text the message is wrapped around
GoError(msg, detail) == [msg |-> msg, detail |-> detail]

ErrRateLimit ==
    GoError("etherscan API rate limit exceeded, please try again later", "")

ErrAPI(text) == GoError("etherscan API error", text)

ErrUnmarshal == GoError("error unmarshaling response", "")

ErrFetch(k) ==
    IF k = "tokenTransfers"
    THEN GoError("error fetching token transfers", "")
    ELSE GoError("error fetching transactions after 3 retries", "")

\* mutant of FetchTransactionsResult: the no-records answer is not told
\* from the other answers with status "0"
FetchTransactionsResultNoRecordsFails(body) ==
    IF ~UnmarshalsAsList(body)
    THEN IF UnmarshalsAsString(body) /\ body.resultString # ""
         THEN IF body.resultString = MaxRateLimitReached
              THEN [list |-> <<>>, err |-> ErrRateLimit]
              ELSE [list |-> <<>>, err |-> ErrAPI(body.resultString)]
         ELSE [list |-> <<>>, err |-> ErrUnmarshal]
    ELSE IF body.status = "0"
         THEN [list |-> <<>>, err |-> ErrAPI(body.message)]
         ELSE [list |-> body.resultArray, err |-> Nil]

\* fetchTransactions from the body on: (list, err)
FetchTransactionsResult(body) ==
    IF ~UnmarshalsAsList(body)
    THEN IF UnmarshalsAsString(body) /\ body.resultString # ""
         THEN IF body.resultString = MaxRateLimitReached
              THEN [list |-> <<>>, err |-> ErrRateLimit]
              ELSE [list |-> <<>>, err |-> ErrAPI(body.resultString)]
         ELSE [list |-> <<>>, err |-> ErrUnmarshal]
    ELSE IF body.status = "0" /\ body.message = NoTransactionsFound
         THEN [list |-> <<>>, err |-> Nil]
         ELSE IF body.status = "0"
              THEN [list |-> <<>>, err |-> ErrAPI(body.message)]
              ELSE [list |-> body.resultArray, err |-> Nil]

\* GetTokenTransfers from the body on: (list, err).  The body is decoded
\* into TokenTransferResponse first, and a body that does not decode is
\* returned as a decoding error before its status is looked at
GetTokenTransfersResult(body) ==
    IF ~UnmarshalsAsList(body)
    THEN [list |-> <<>>, err |-> ErrUnmarshal]
    ELSE IF body.status = "0"
         THEN IF body.message = NoTransactionsFound
              THEN [list |-> <<>>, err |-> Nil]
              ELSE IF UnmarshalsAsString(body) /\ body.resultString # ""
                   THEN IF body.resultString = MaxRateLimitReached
                        THEN [list |-> <<>>, err |-> ErrRateLimit]
                        ELSE [list |-> <<>>, err |-> ErrAPI(body.resultString)]
                   ELSE [list |-> <<>>, err |-> ErrAPI(body.message)]
         ELSE [list |-> body.resultArray, err |-> Nil]

\* GetNormalTransactions, GetInternalTransactions, GetTokenTransfers: what
\* the call returns when its last HTTP attempt failed (transportErr) or was
\* answered with body
GatewayCall(k, transportErr, body) ==
    IF transportErr THEN [list |-> <<>>, err |-> ErrFetch(k)]
    ELSE IF k = "tokenTransfers" THEN GetTokenTransfersResult(body)
    ELSE FetchTransactionsResult(body)

\* the errors a gateway call can return
GatewayErrors ==
    UNION { { GatewayCall(k, t, b).err : t \in BOOLEAN, b \in Bodies(k, 0) } :
                k \in Kinds } \ {Nil}

(***************************************************************************)
(* Unit and time conversion, as processBeneficiary / processPayer do it.   *)
(***************************************************************************)
\* big.Float SetString, Quo by 10^18, Float64: the value strings that occur
\* are exact multiples of 10^18 whose quotient is a float64; a string that
\* does not start with a number leaves the big.Float at zero (the result of
\* SetString is not looked at), and one that starts with a number leaves it
\* at that number: the scan has set the big.Float when the check for the
\* end of the string fails; "Inf" is parsed as +Inf, and +Inf divided by
\* 10^18 is +Inf
WeiToEther(valueStr) ==
    CASE valueStr = OneEther -> [hi |-> 0, lo |-> 1]
      [] valueStr = BigValue -> [hi |-> 1, lo |-> 0]
      [] valueStr = InfValue -> PosInf
      [] valueStr = PrefixedValue -> [hi |-> 0, lo |-> 1]
      [] OTHER -> Zero

\* big.Float SetString(valueStr) reports success
ParsesAsFloat(valueStr) == valueStr \in {OneEther, BigValue, InfValue}

\* strconv.ParseInt(timestamp, 10, 64) succeeds
ParsesAsInt64(timestamp) == timestamp \in {"1690000000"}

\* mutant of FormatTime: the formatted string is empty
FormatTimeEmpty(timestamp) ==
    IF ParsesAsInt64(timestamp)
    THEN [formatted |-> "", err |-> Nil]
    ELSE [formatted |-> "", err |-> [msg |-> "error parsing timestamp"]]

\* etherscan.FormatTime: (formatted, err); the formatted string is the one
\* of a process whose local time zone is UTC
FormatTime(timestamp) ==
    IF ParsesAsInt64(timestamp)
    THEN [formatted |-> "2023-07-22 04:26:40", err |-> Nil]
    ELSE [formatted |-> "", err |-> [msg |-> "error parsing timestamp"]]

\* mutant of TxDetails: the date is what FormatTime returned, error or not
TxDetailsNoFallback(valueStr, hash, timestampStr) ==
    [TxAmount      |-> WeiToEther(valueStr),
     DateTime      |-> FormatTime(timestampStr).formatted,
     TransactionID |-> hash]

TxDetails(valueStr, hash, timestampStr) ==
    LET ft == FormatTime(timestampStr)
    IN  [TxAmount      |-> WeiToEther(valueStr),
         DateTime      |-> IF ft.err # Nil THEN timestampStr ELSE ft.formatted,
         TransactionID |-> hash]

\* mutant of ProcessBeneficiary: the total of an existing aggregate is set
\* to the amount instead of increased by it
ProcessBeneficiaryOverwrite(beneficiaryMap, beneficiaryAddr, valueStr, hash, timestampStr) ==
    LET txDetails == TxDetails(valueStr, hash, timestampStr)
        amount    == txDetails.TxAmount
    IN  IF beneficiaryAddr \in DOMAIN beneficiaryMap
        THEN [beneficiaryMap EXCEPT
                 ![beneficiaryAddr] =
                     [Address      |-> @.Address,
                      Amount       |-> amount,
                      Transactions |-> Append(@.Transactions, txDetails)]]
        ELSE (beneficiaryAddr :> [Address      |-> beneficiaryAddr,
                                  Amount       |-> amount,
                                  Transactions |-> <<txDetails>>])
                 @@ beneficiaryMap

\* mutant of ProcessBeneficiary: the map is keyed by the lower-cased address
ProcessBeneficiaryFoldedKey(beneficiaryMap, beneficiaryAddr, valueStr, hash, timestampStr) ==
    LET txDetails == TxDetails(valueStr, hash, timestampStr)
        amount    == txDetails.TxAmount
        key       == Fold(beneficiaryAddr)
    IN  IF key \in DOMAIN beneficiaryMap
        THEN [beneficiaryMap EXCEPT
                 ![key] =
                     [Address      |-> @.Address,
                      Amount       |-> FloatAdd(@.Amount, amount),
                      Transactions |-> Append(@.Transactions, txDetails)]]
        ELSE (key :> [Address      |-> key,
                      Amount       |-> amount,
                      Transactions |-> <<txDetails>>])
                 @@ beneficiaryMap

\* processBeneficiary: the map after the call
ProcessBeneficiary(beneficiaryMap, beneficiaryAddr, valueStr, hash, timestampStr) ==
    LET txDetails == TxDetails(valueStr, hash, timestampStr)
        amount    == txDetails.TxAmount
    IN  IF beneficiaryAddr \in DOMAIN beneficiaryMap
        THEN [beneficiaryMap EXCEPT
                 ![beneficiaryAddr] =
                     [Address      |-> @.Address,
                      Amount       |-> FloatAdd(@.Amount, amount),
                      Transactions |-> Append(@.Transactions, txDetails)]]
        ELSE (beneficiaryAddr :> [Address      |-> beneficiaryAddr,
                                  Amount       |-> amount,
                                  Transactions |-> <<txDetails>>])
                 @@ beneficiaryMap

\* mutant of ProcessPayer: the total of an existing aggregate is not increased
ProcessPayerNoAdd(payerMap, payerAddr, valueStr, hash, timestampStr) ==
    LET txDetails == TxDetails(valueStr, hash, timestampStr)
        amount    == txDetails.TxAmount
    IN  IF payerAddr \in DOMAIN payerMap
        THEN [payerMap EXCEPT
                 ![payerAddr] =
                     [Address      |-> @.Address,
                      Amount       |-> @.Amount,
                      Transactions |-> Append(@.Transactions, txDetails)]]
        ELSE (payerAddr :> [Address      |-> payerAddr,
                            Amount       |-> amount,
                            Transactions |-> <<txDetails>>])
                 @@ payerMap

\* processPayer: the map after the call
ProcessPayer(payerMap, payerAddr, valueStr, hash, timestampStr) ==
    LET txDetails == TxDetails(valueStr, hash, timestampStr)
        amount    == txDetails.TxAmount
    IN  IF payerAddr \in DOMAIN payerMap
        THEN [payerMap EXCEPT
                 ![payerAddr] =
                     [Address      |-> @.Address,
                      Amount       |-> FloatAdd(@.Amount, amount),
                      Transactions |-> Append(@.Transactions, txDetails)]]
        ELSE (payerAddr :> [Address      |-> payerAddr,
                            Amount       |-> amount,
                            Transactions |-> <<txDetails>>])
                 @@ payerMap

(***************************************************************************)
(* The filters of the three loops.                                         *)
(***************************************************************************)
\* mutant of OutgoingTx: the receiving side is compared
OutgoingTxInverted(tx, addr) == EqualFold(tx.to, addr) /\ tx.isError = "0"

\* beneficiary loops over normal and internal transactions
OutgoingTx(tx, addr) == EqualFold(tx.from, addr) /\ tx.isError = "0"

\* beneficiary loop over token transfers
OutgoingTransfer(transfer, addr) == EqualFold(transfer.from, addr)

\* mutant of IncomingTx: failed transactions are let through
IncomingTxNoErrorCheck(tx, addr) == EqualFold(tx.to, addr)

\* payer loops over normal and internal transactions
IncomingTx(tx, addr) == EqualFold(tx.to, addr) /\ tx.isError = "0"

\* mutant of IncomingTransfer: the sending side is compared
IncomingTransferBySender(transfer, addr) == EqualFold(transfer.from, addr)

\* payer loop over token transfers
IncomingTransfer(transfer, addr) == EqualFold(transfer.to, addr)

VARIABLES
    role,        \* "beneficiary" (AnalyzeBeneficiary) or "payer" (AnalyzePayer)
    address,     \* the queried address
    taskPc,      \* per fetch goroutine: "fetch", "check", "return", "done"
    fetched,     \* the result slots normalTxs, internalTxs, tokenTransfers
    err,         \* the one err variable the three closures share
    gatewayErr,  \* per goroutine: what its gateway call returned as error
    taskRet,     \* per goroutine: the error its closure returns
    egErr,       \* errgroup.Group.err
    pc,          \* the analysis call: "wait", "scan", "returned"
    scanned,     \* records the three loops have gone through
    counterpartyMap, \* beneficiaryMap / payerMap
    result,      \* the returned slice (empty while there is none)
    retErr,      \* the returned error
    run,         \* 1, or 2 while the aggregation is repeated on the same lists
    firstResult, \* the slice the first aggregation returned
    answer,      \* per goroutine: what its gateway call was answered with
    gw,          \* one gateway call, followed through its HTTP attempts
    http         \* the HTTP layer: the request in hand and its response

vars == <<role, address, taskPc, fetched, err, gatewayErr, taskRet, egErr,
          pc, scanned, counterpartyMap, result, retErr, run, firstResult,
          answer, gw, http>>

fetchVars == <<taskPc, fetched, err, gatewayErr, taskRet, egErr, answer>>

Roles == {"beneficiary", "payer"}

EmptyMap == [a \in {} |-> Nil]

Init ==
    /\ role \in Roles
    /\ address = "0xa"
    /\ taskPc = [k \in Kinds |-> "fetch"]
    /\ fetched = [k \in Kinds |-> <<>>]
    /\ err = Nil
    /\ gatewayErr = [k \in Kinds |-> Nil]
    /\ taskRet = [k \in Kinds |-> Nil]
    /\ egErr = Nil
    /\ pc = "wait"
    /\ scanned = 0
    /\ counterpartyMap = EmptyMap
    /\ result = <<>>
    /\ retErr = Nil
    /\ run = 1
    /\ firstResult = <<>>
    /\ answer = [k \in Kinds |-> Nil]
    /\ gw = Nil
    /\ http = Nil

TotalFetched == Len(fetched["normalTxs"]) + Len(fetched["internalTxs"])
                    + Len(fetched["tokenTransfers"])

\* `normalTxs, err = client.GetNormalTransactions(address)` and its two
\* siblings: the gateway call returns and the closure assigns its slot and
\* the shared err
AssignFetched(k, t, body) ==
    LET ret == GatewayCall(k, t, body)
        e   == IF ret.err = Nil THEN Nil
               ELSE [origin |-> k, msg |-> ret.err.msg,
                     detail |-> ret.err.detail]
    IN  /\ fetched' = [fetched EXCEPT ![k] = ret.list]
        /\ err' = e
        /\ gatewayErr' = [gatewayErr EXCEPT ![k] = e]
        /\ answer' = [answer EXCEPT ![k] = [transportErr |-> t, body |-> body]]
        /\ taskPc' = [taskPc EXCEPT ![k] = "check"]

FetchReturn(k) ==
    /\ taskPc[k] = "fetch"
    /\ \E t \in BOOLEAN :
       \E body \in IF t THEN {NotJSON}
                   ELSE AnalysisBodies(k, MaxFetched - TotalFetched) :
          AssignFetched(k, t, body)
    /\ UNCHANGED <<role, address, taskRet, egErr, pc, scanned, counterpartyMap,
                   result, retErr, run, firstResult, gw, http>>

\* `if err != nil { return fmt.Errorf("error fetching ...: %w", err) }; return nil`
\* The closure reads the shared err, which a sibling may have written since:
\* the three closures race on it, and a read sees the latest write of any
\* of them
CheckErr(k) ==
    /\ taskPc[k] = "check"
    /\ taskRet' = [taskRet EXCEPT
                      ![k] = IF err # Nil THEN [wrappedBy |-> k, cause |-> err]
                             ELSE Nil]
    /\ taskPc' = [taskPc EXCEPT ![k] = "return"]
    /\ UNCHANGED <<role, address, fetched, err, gatewayErr, egErr, pc, scanned,
                   counterpartyMap, result, retErr, run, firstResult, answer,
                   gw, http>>

\* errgroup: the goroutine's function has returned; the first non-nil
\* error is kept (errOnce), and the goroutine is done
TaskReturn(k) ==
    /\ taskPc[k] = "return"
    /\ egErr' = IF taskRet[k] # Nil /\ egErr = Nil THEN taskRet[k] ELSE egErr
    /\ taskPc' = [taskPc EXCEPT ![k] = "done"]
    /\ UNCHANGED <<role, address, fetched, err, gatewayErr, taskRet, pc, scanned,
                   counterpartyMap, result, retErr, run, firstResult, answer,
                   gw, http>>

\* mutant of WaitGroupDone: the wait ends as well when an error has been
\* reported to the group
WaitGroupDoneOrFailed == (\A k \in Kinds : taskPc[k] = "done") \/ egErr # Nil

\* mutant of WaitGroupDone: the wait ends when one goroutine is done
WaitGroupAnyDone == \E k \in Kinds : taskPc[k] = "done"

\* errgroup's g.wg.Wait() returns: every goroutine started with eg.Go has
\* returned
WaitGroupDone == \A k \in Kinds : taskPc[k] = "done"

\* `if err := eg.Wait(); err != nil { return nil, err }`: Wait returns when
\* the three goroutines are done
Wait ==
    /\ pc = "wait"
    /\ WaitGroupDone
    /\ IF egErr # Nil
       THEN /\ pc' = "returned"
            /\ retErr' = egErr
       ELSE /\ pc' = "scan"
            /\ retErr' = retErr
    /\ UNCHANGED <<role, address, fetchVars, scanned, counterpartyMap, result,
                   run, firstResult, gw, http>>

(***************************************************************************)
(* The three loops, in the order of the code: normal, internal, token.     *)
(***************************************************************************)
\* mutant of ScanList: the loop over the token transfers comes first
ScanListTokenFirst ==
    [i \in 1..Len(fetched["tokenTransfers"]) |->
        [kind |-> "tokenTransfers", rec |-> fetched["tokenTransfers"][i]]]
    \o [i \in 1..Len(fetched["normalTxs"]) |->
        [kind |-> "normalTxs", rec |-> fetched["normalTxs"][i]]]
    \o [i \in 1..Len(fetched["internalTxs"]) |->
        [kind |-> "internalTxs", rec |-> fetched["internalTxs"][i]]]

\* the records of the three slots in the order the loops meet them
ScanList ==
    [i \in 1..Len(fetched["normalTxs"]) |->
        [kind |-> "normalTxs", rec |-> fetched["normalTxs"][i]]]
    \o [i \in 1..Len(fetched["internalTxs"]) |->
        [kind |-> "internalTxs", rec |-> fetched["internalTxs"][i]]]
    \o [i \in 1..Len(fetched["tokenTransfers"]) |->
        [kind |-> "tokenTransfers", rec |-> fetched["tokenTransfers"][i]]]

\* one iteration of a loop over normalTxs or internalTxs
ProcessTx(k) ==
    /\ pc = "scan"
    /\ scanned < Len(ScanList)
    /\ ScanList[scanned + 1].kind = k
    /\ LET tx == ScanList[scanned + 1].rec
       IN  counterpartyMap' =
             IF role = "beneficiary"
             THEN IF OutgoingTx(tx, address)
                  THEN ProcessBeneficiary(counterpartyMap, tx.to, tx.value,
                                          tx.hash, tx.timeStamp)
                  ELSE counterpartyMap
             ELSE IF IncomingTx(tx, address)
                  THEN ProcessPayer(counterpartyMap, tx.from, tx.value,
                                    tx.hash, tx.timeStamp)
                  ELSE counterpartyMap
    /\ scanned' = scanned + 1
    /\ UNCHANGED <<role, address, fetchVars, pc, result, retErr, run, firstResult,
                   gw, http>>

ProcessNormalTx == ProcessTx("normalTxs")

ProcessInternalTx == ProcessTx("internalTxs")

\* one iteration of the loop over tokenTransfers
ProcessTokenTransfer ==
    /\ pc = "scan"
    /\ scanned < Len(ScanList)
    /\ ScanList[scanned + 1].kind = "tokenTransfers"
    /\ LET transfer == ScanList[scanned + 1].rec
       IN  counterpartyMap' =
             IF role = "beneficiary"
             THEN IF OutgoingTransfer(transfer, address)
                  THEN ProcessBeneficiary(counterpartyMap, transfer.to,
                           transfer.value, transfer.hash, transfer.timeStamp)
                  ELSE counterpartyMap
             ELSE IF IncomingTransfer(transfer, address)
                  THEN ProcessPayer(counterpartyMap, transfer.from,
                           transfer.value, transfer.hash, transfer.timeStamp)
                  ELSE counterpartyMap
    /\ scanned' = scanned + 1
    /\ UNCHANGED <<role, address, fetchVars, pc, result, retErr, run, firstResult,
                   gw, http>>

\* the orders in which `for _, b := range m` can visit the keys of a map:
\* Go leaves the iteration order of a map unspecified
RangeOrders(m) ==
    LET n == Cardinality(DOMAIN m)
    IN  { f \in [1..n -> DOMAIN m] : \A i, j \in 1..n : i # j => f[i] # f[j] }

\* "Convert map to slice" and return
ConvertMapToSlice ==
    /\ pc = "scan"
    /\ scanned = Len(ScanList)
    /\ \E order \in RangeOrders(counterpartyMap) :
          result' = [i \in 1..Len(order) |-> counterpartyMap[order[i]]]
    /\ retErr' = Nil
    /\ pc' = "returned"
    /\ UNCHANGED <<role, address, fetchVars, scanned, counterpartyMap, run,
                   firstResult, gw, http>>

\* the aggregation is run a second time on the same three lists and the
\* same address, from a fresh map
AggregateAgain ==
    /\ pc = "returned"
    /\ retErr = Nil
    /\ run = 1
    /\ run' = 2
    /\ firstResult' = result
    /\ counterpartyMap' = EmptyMap
    /\ scanned' = 0
    /\ result' = <<>>
    /\ pc' = "scan"
    /\ UNCHANGED <<role, address, fetchVars, retErr, gw, http>>

Next ==
    \/ \E k \in Kinds : FetchReturn(k)
    \/ \E k \in Kinds : CheckErr(k)
    \/ \E k \in Kinds : TaskReturn(k)
    \/ Wait
    \/ ProcessNormalTx
    \/ ProcessInternalTx
    \/ ProcessTokenTransfer
    \/ ConvertMapToSlice

\* one analysis call, from the start of its three fetches to its return
Spec == Init /\ [][Next]_vars

(***************************************************************************)
(* The call from the join on: eg.Wait has returned nil and the three slots *)
(* hold what the fetches left there.                                       *)
(***************************************************************************)
InitJoined ==
    /\ role \in Roles
    /\ address = "0xa"
    /\ taskPc = [k \in Kinds |-> "done"]
    /\ \E n \in SeqsUpTo(Transactions, MaxTotal) :
       \E i \in SeqsUpTo(Transactions, MaxTotal - Len(n)) :
       \E t \in SeqsUpTo(TokenTransfers, MaxTotal - Len(n) - Len(i)) :
          fetched = [k \in Kinds |-> IF k = "normalTxs" THEN n
                                     ELSE IF k = "internalTxs" THEN i ELSE t]
    /\ err = Nil
    /\ gatewayErr = [k \in Kinds |-> Nil]
    /\ taskRet = [k \in Kinds |-> Nil]
    /\ egErr = Nil
    /\ pc = "scan"
    /\ scanned = 0
    /\ counterpartyMap = EmptyMap
    /\ result = <<>>
    /\ retErr = Nil
    /\ run = 1
    /\ firstResult = <<>>
    /\ answer = [k \in Kinds |-> Nil]
    /\ gw = Nil
    /\ http = Nil

NextAggregate ==
    \/ ProcessNormalTx
    \/ ProcessInternalTx
    \/ ProcessTokenTransfer
    \/ ConvertMapToSlice

SpecAggregate == InitJoined /\ [][NextAggregate]_vars

\* the same, with the aggregation repeated once on the same lists
SpecTwice == InitJoined /\ [][NextAggregate \/ AggregateAgain]_vars

(***************************************************************************)
(* One gateway call, followed through its HTTP attempts.  gw.retry is the  *)
(* loop variable of fetchTransactions, gw.attempts counts the calls of     *)
(* httpClient.Get, gw.waits lists the seconds slept, gw.transportErr and   *)
(* gw.body are the err and the body of the last attempt, gw.ret is what    *)
(* the call returned.                                                      *)
(***************************************************************************)
\* the analysis and the HTTP layer at rest
Idle ==
    /\ role = "beneficiary"
    /\ address = "0xa"
    /\ taskPc = [k \in Kinds |-> "fetch"]
    /\ fetched = [k \in Kinds |-> <<>>]
    /\ err = Nil
    /\ gatewayErr = [k \in Kinds |-> Nil]
    /\ taskRet = [k \in Kinds |-> Nil]
    /\ egErr = Nil
    /\ pc = "wait"
    /\ scanned = 0
    /\ counterpartyMap = EmptyMap
    /\ result = <<>>
    /\ retErr = Nil
    /\ run = 1
    /\ firstResult = <<>>
    /\ answer = [k \in Kinds |-> Nil]

analysisVars == <<role, address, fetchVars, pc, scanned, counterpartyMap,
                  result, retErr, run, firstResult>>

InitGateway ==
    /\ Idle
    /\ http = Nil
    /\ \E k \in Kinds :
          gw = [kind |-> k, pc |-> "get", retry |-> 0, attempts |-> 0,
                waits |-> <<>>, transportErr |-> FALSE, body |-> NotJSON,
                ret |-> Nil]

\* fetchTransactions, `if retry > 0 { time.Sleep(retry * retry seconds) }`
FetchTransactionsSleep ==
    /\ gw.kind # "tokenTransfers"
    /\ gw.pc = "sleep"
    /\ gw' = [gw EXCEPT !.waits = Append(@, gw.retry * gw.retry),
                        !.pc = "get"]
    /\ UNCHANGED <<analysisVars, http>>

\* fetchTransactions, `resp, err = c.httpClient.Get(endpoint); if err == nil
\* { break }`, then retry++ and the loop test
FetchTransactionsGet ==
    /\ gw.kind # "tokenTransfers"
    /\ gw.pc = "get"
    /\ \E t \in BOOLEAN :
       \E body \in IF t THEN {NotJSON} ELSE Bodies(gw.kind, MaxFetched) :
          gw' = [gw EXCEPT !.attempts = @ + 1,
                           !.transportErr = t,
                           !.body = body,
                           !.retry = IF t THEN @ + 1 ELSE @,
                           !.pc = IF t /\ gw.retry + 1 < maxRetries
                                  THEN "sleep" ELSE "read"]
    /\ UNCHANGED <<analysisVars, http>>

\* fetchTransactions from `if err != nil` after the loop to its return
FetchTransactionsReturn ==
    /\ gw.kind # "tokenTransfers"
    /\ gw.pc = "read"
    /\ gw' = [gw EXCEPT !.ret = GatewayCall(gw.kind, gw.transportErr, gw.body),
                        !.pc = "returned"]
    /\ UNCHANGED <<analysisVars, http>>

\* GetTokenTransfers, `resp, err := c.httpClient.Get(endpoint)`
GetTokenTransfersGet ==
    /\ gw.kind = "tokenTransfers"
    /\ gw.pc = "get"
    /\ \E t \in BOOLEAN :
       \E body \in IF t THEN {NotJSON} ELSE Bodies(gw.kind, MaxFetched) :
          gw' = [gw EXCEPT !.attempts = @ + 1,
                           !.transportErr = t,
                           !.body = body,
                           !.pc = "read"]
    /\ UNCHANGED <<analysisVars, http>>

\* GetTokenTransfers from `if err != nil` after the Get to its return
GetTokenTransfersReturn ==
    /\ gw.kind = "tokenTransfers"
    /\ gw.pc = "read"
    /\ gw' = [gw EXCEPT !.ret = GatewayCall(gw.kind, gw.transportErr, gw.body),
                        !.pc = "returned"]
    /\ UNCHANGED <<analysisVars, http>>

NextGateway ==
    \/ FetchTransactionsSleep
    \/ FetchTransactionsGet
    \/ FetchTransactionsReturn
    \/ GetTokenTransfersGet
    \/ GetTokenTransfersReturn

SpecGateway == InitGateway /\ [][NextGateway]_vars

(***************************************************************************)
(* The HTTP layer (api.Handler).  http.pc is "idle" between requests and   *)
(* "core" while the handler is in AnalyzeBeneficiary / AnalyzePayer;       *)
(* http.response is what the handler wrote for the request in http.path    *)
(* and http.address, http.codes the status codes written so far.           *)
(***************************************************************************)
\* requests the server is followed through
MaxRequests == 2

\* records in the three lists, all together, of a call made by a handler
MaxServedRecords == 2

StatusOK == 200

StatusBadRequest == 400

StatusInternalServerError == 500

\* a transfer of the queried address to itself whose value is infinite
InfTx == Tx("0xh9", "1690000000", "0xa", "0xa", InfValue, "0")

ServedRecordsOf(k) ==
    IF k = "tokenTransfers"
    THEN TokenTransfers \cup
            { [hash |-> InfTx.hash, timeStamp |-> InfTx.timeStamp,
               from |-> InfTx.from, to |-> InfTx.to, value |-> InfTx.value] }
    ELSE Transactions \cup {InfTx}

\* err.Error() of the error an analysis call returns: "error fetching
\* <kind>: <cause>"
ErrorString(e) ==
    [prefix |-> e.wrappedBy, msg |-> e.cause.msg, detail |-> e.cause.detail]

\* a message the handler writes itself
PlainText(msg) == [prefix |-> "", msg |-> msg, detail |-> ""]

ErrorResponse(message) == [Message |-> "error", Error |-> message]

BeneficiaryResponse(data) == [Message |-> "success", Data |-> data]

PayerResponse(data) == [Message |-> "success", Data |-> data]

TransactionDetails(tx) ==
    [TxAmount |-> tx.TxAmount, DateTime |-> tx.DateTime,
     TransactionID |-> tx.TransactionID]

BeneficiaryData(b) ==
    [BeneficiaryAddress |-> b.Address,
     Amount             |-> b.Amount,
     Transactions       |-> [j \in 1..Len(b.Transactions) |->
                                TransactionDetails(b.Transactions[j])]]

PayerData(payer) ==
    [PayerAddress |-> payer.Address,
     Amount       |-> payer.Amount,
     Transactions |-> [j \in 1..Len(payer.Transactions) |->
                          TransactionDetails(payer.Transactions[j])]]

\* json.Marshal(payload) returns a nil error: it fails on a float64 that
\* is not finite
Marshals(payload) ==
    "Data" \in DOMAIN payload =>
        \A i \in 1..Len(payload.Data) :
            /\ ~IsInf(payload.Data[i].Amount)
            /\ \A j \in 1..Len(payload.Data[i].Transactions) :
                  ~IsInf(payload.Data[i].Transactions[j].TxAmount)

\* mutant of RespondWithError: the status code written is 200
RespondWithErrorAsOK(code, message) ==
    [code |-> StatusOK, body |-> ErrorResponse(message)]

\* respondWithError: the code and the body written
RespondWithError(code, message) ==
    [code |-> code, body |-> ErrorResponse(message)]

\* respondWithJSON: the code and the body written
RespondWithJSON(code, payload) ==
    IF Marshals(payload) THEN [code |-> code, body |-> payload]
    ELSE RespondWithError(StatusInternalServerError,
                          PlainText("Error creating response"))

\* mutant of AddressMissing: the address parameter is not looked at
AddressNeverMissing(addr) == FALSE

\* `if address == ""`
AddressMissing(addr) == addr = ""

InitHTTP ==
    /\ Idle
    /\ gw = Nil
    /\ http = [pc |-> "idle", path |-> "", address |-> "", response |-> Nil,
               codes |-> <<>>]

\* HandleBeneficiary / HandlePayer from the request to the call of the
\* analysis; a request without address is answered here
HandleRequest(path, r) ==
    /\ http.pc = "idle"
    /\ Len(http.codes) < MaxRequests
    /\ \E addr \in {"", "0xa"} :
          IF AddressMissing(addr)
          THEN LET resp == RespondWithError(StatusBadRequest,
                               PlainText("address parameter is required"))
               IN  /\ http' = [pc |-> "idle", path |-> path, address |-> addr,
                               response |-> resp,
                               codes |-> Append(http.codes, resp.code)]
                   /\ UNCHANGED analysisVars
          ELSE /\ http' = [pc |-> "core", path |-> path, address |-> addr,
                           response |-> Nil, codes |-> http.codes]
               /\ role' = r
               /\ address' = addr
               /\ UNCHANGED <<fetchVars, pc, scanned, counterpartyMap, result,
                              retErr, run, firstResult>>
    /\ UNCHANGED gw

HandleBeneficiary == HandleRequest("/beneficiary", "beneficiary")

HandlePayer == HandleRequest("/payer", "payer")

\* the three fetches of the handler's analysis call and eg.Wait, taken as
\* one step: the lists are in their slots and Wait returns nil, or Wait
\* returns the error of one of the fetches
FetchPhase ==
    /\ http.pc = "core"
    /\ pc = "wait"
    /\ taskPc' = [k \in Kinds |-> "done"]
    /\ \/ /\ \E n \in SeqsUpTo(ServedRecordsOf("normalTxs"), MaxServedRecords) :
             \E i \in SeqsUpTo(ServedRecordsOf("internalTxs"),
                               MaxServedRecords - Len(n)) :
             \E t \in SeqsUpTo(ServedRecordsOf("tokenTransfers"),
                               MaxServedRecords - Len(n) - Len(i)) :
                fetched' = [k \in Kinds |-> IF k = "normalTxs" THEN n
                                           ELSE IF k = "internalTxs" THEN i
                                           ELSE t]
          /\ pc' = "scan"
          /\ UNCHANGED <<gatewayErr, taskRet, egErr, retErr>>
       \/ \E k \in Kinds :
             LET e == [origin |-> k, msg |-> ErrRateLimit.msg,
                       detail |-> ErrRateLimit.detail]
                 w == [wrappedBy |-> k, cause |-> e]
             IN  /\ gatewayErr' = [gatewayErr EXCEPT ![k] = e]
                 /\ taskRet' = [taskRet EXCEPT ![k] = w]
                 /\ egErr' = w
                 /\ retErr' = w
                 /\ pc' = "returned"
                 /\ UNCHANGED fetched
    /\ UNCHANGED <<role, address, err, answer, scanned, counterpartyMap, result,
                   run, firstResult, gw, http>>

\* HandleBeneficiary / HandlePayer from the return of the analysis to the
\* response; the locals of the call are gone
HandlerRespond ==
    /\ http.pc = "core"
    /\ pc = "returned"
    /\ LET data == IF http.path = "/beneficiary"
                   THEN BeneficiaryResponse(
                            [i \in 1..Len(result) |-> BeneficiaryData(result[i])])
                   ELSE PayerResponse(
                            [i \in 1..Len(result) |-> PayerData(result[i])])
           resp == IF retErr # Nil
                   THEN RespondWithError(StatusInternalServerError,
                                         ErrorString(retErr))
                   ELSE RespondWithJSON(StatusOK, data)
       IN  http' = [http EXCEPT !.pc = "idle",
                                !.response = resp,
                                !.codes = Append(@, resp.code)]
    /\ taskPc' = [k \in Kinds |-> "fetch"]
    /\ fetched' = [k \in Kinds |-> <<>>]
    /\ gatewayErr' = [k \in Kinds |-> Nil]
    /\ taskRet' = [k \in Kinds |-> Nil]
    /\ egErr' = Nil
    /\ pc' = "wait"
    /\ scanned' = 0
    /\ counterpartyMap' = EmptyMap
    /\ result' = <<>>
    /\ retErr' = Nil
    /\ UNCHANGED <<role, address, err, answer, run, firstResult, gw>>

NextHTTP ==
    \/ HandleBeneficiary
    \/ HandlePayer
    \/ FetchPhase
    \/ ProcessNormalTx
    \/ ProcessInternalTx
    \/ ProcessTokenTransfer
    \/ ConvertMapToSlice
    \/ HandlerRespond

\* the server, followed through MaxRequests requests
SpecHTTP == InitHTTP /\ [][NextHTTP]_vars

(***************************************************************************)
(* The call from the join on, the slots holding records whose value or     *)
(* timestamp field is malformed.                                           *)
(***************************************************************************)
\* records in the three lists, all together, of such a call
MaxMalformed == 2

\* transfers of the queried address whose value is no number, a number
\* followed by letters, or empty, and whose timestamp is no number or
\* empty; and a well-formed one
MalformedTransactions ==
    { Tx("0xm1", "not-a-number", "0xa", "0xa", JunkValue,     "0"),
      Tx("0xm2", "",             "0xa", "0xa", PrefixedValue, "0"),
      Tx("0xm3", "1690000000",   "0xa", "0xA", "",            "0"),
      Tx("0xm4", "1690000000",   "0xA", "0xa", OneEther,      "0") }

MalformedRecordsOf(k) ==
    IF k = "tokenTransfers"
    THEN { [hash |-> r.hash, timeStamp |-> r.timeStamp, from |-> r.from,
            to |-> r.to, value |-> r.value] : r \in MalformedTransactions }
    ELSE MalformedTransactions

InitMalformed ==
    /\ role \in Roles
    /\ address = "0xa"
    /\ taskPc = [k \in Kinds |-> "done"]
    /\ \E n \in SeqsUpTo(MalformedRecordsOf("normalTxs"), MaxMalformed) :
       \E i \in SeqsUpTo(MalformedRecordsOf("internalTxs"),
                         MaxMalformed - Len(n)) :
       \E t \in SeqsUpTo(MalformedRecordsOf("tokenTransfers"),
                         MaxMalformed - Len(n) - Len(i)) :
          fetched = [k \in Kinds |-> IF k = "normalTxs" THEN n
                                     ELSE IF k = "internalTxs" THEN i ELSE t]
    /\ err = Nil
    /\ gatewayErr = [k \in Kinds |-> Nil]
    /\ taskRet = [k \in Kinds |-> Nil]
    /\ egErr = Nil
    /\ pc = "scan"
    /\ scanned = 0
    /\ counterpartyMap = EmptyMap
    /\ result = <<>>
    /\ retErr = Nil
    /\ run = 1
    /\ firstResult = <<>>
    /\ answer = [k \in Kinds |-> Nil]
    /\ gw = Nil
    /\ http = Nil

SpecMalformed == InitMalformed /\ [][NextAggregate]_vars

(***************************************************************************)
(* One analysis call with the HTTP attempts of its three gateway calls.    *)
(* gw[k].attempts counts the calls of httpClient.Get of fetch k and        *)
(* gw[k].waits lists the seconds it has slept.  The goroutines are         *)
(* scheduled fairly and every HTTP call returns (the client's timeout is   *)
(* 60 seconds).                                                            *)
(***************************************************************************)
\* mutant of AttemptLimit: one more attempt
AttemptLimitOneMore(k) == maxRetries + 1

\* the HTTP attempts the gateway call of kind k makes at most: the loop of
\* fetchTransactions, the single Get of GetTokenTransfers
AttemptLimit(k) == IF k = "tokenTransfers" THEN 1 ELSE maxRetries

\* the answers followed here: no record or the one record 0xh1, no
\* records found, rate limit
TerminationBodies(k) ==
    { b \in AnalysisBodies(k, 1) :
         \A i \in 1..Len(b.resultArray) : b.resultArray[i].hash = "0xh1" }

InitTermination ==
    /\ Idle
    /\ http = Nil
    /\ gw = [k \in Kinds |-> [attempts |-> 0, waits |-> <<>>]]

\* the gateway call of fetch k sleeps before a retry
TaskSleep(k) ==
    /\ taskPc[k] = "fetch"
    /\ Len(gw[k].waits) < gw[k].attempts
    /\ gw' = [gw EXCEPT ![k].waits = Append(@, gw[k].attempts * gw[k].attempts)]
    /\ UNCHANGED <<analysisVars, http>>

\* one httpClient.Get of the gateway call of fetch k; when it is answered,
\* or was the last attempt, the call returns and the closure assigns its
\* slot and the shared err
TaskGet(k) ==
    /\ taskPc[k] = "fetch"
    /\ Len(gw[k].waits) = gw[k].attempts
    /\ gw' = [gw EXCEPT ![k].attempts = @ + 1]
    /\ \E t \in BOOLEAN :
          IF t /\ gw[k].attempts + 1 < AttemptLimit(k)
          THEN UNCHANGED fetchVars
          ELSE \E body \in IF t THEN {NotJSON} ELSE TerminationBodies(k) :
                  /\ AssignFetched(k, t, body)
                  /\ UNCHANGED <<taskRet, egErr>>
    /\ UNCHANGED <<role, address, pc, scanned, counterpartyMap, result, retErr,
                   run, firstResult, http>>

TaskStep(k) == TaskSleep(k) \/ TaskGet(k) \/ CheckErr(k) \/ TaskReturn(k)

CallerStep ==
    \/ Wait
    \/ ProcessNormalTx
    \/ ProcessInternalTx
    \/ ProcessTokenTransfer
    \/ ConvertMapToSlice

NextTermination ==
    \/ \E k \in Kinds : TaskSleep(k)
    \/ \E k \in Kinds : TaskGet(k)
    \/ \E k \in Kinds : CheckErr(k)
    \/ \E k \in Kinds : TaskReturn(k)
    \/ Wait
    \/ ProcessNormalTx
    \/ ProcessInternalTx
    \/ ProcessTokenTransfer
    \/ ConvertMapToSlice

SpecTermination ==
    /\ InitTermination
    /\ [][NextTermination]_vars
    /\ \A k \in Kinds : WF_vars(TaskStep(k))
    /\ WF_vars(CallerStep)

(***************************************************************************)
(* Vocabulary of the properties.                                           *)
(***************************************************************************)
\* the call has returned a result and no error
Succeeded == pc = "returned" /\ retErr = Nil

\* the loops are at a record
Scanning == pc = "scan" /\ scanned < Len(ScanList)

\* a step that takes the loops past the record they are at
ScanStep == Scanning /\ scanned' = scanned + 1

\* the three loops have gone through all records
ScanComplete ==
    Succeeded \/ (pc = "scan" /\ scanned = Len(ScanList))

\* the record's from (beneficiary) or to (payer) is the queried address,
\* letter case ignored
DirectionMatches(r) ==
    IF role = "beneficiary" THEN Fold(r.from) = Fold(address)
    ELSE Fold(r.to) = Fold(address)

\* the record's exact counterparty string
KeyOf(r) == IF role = "beneficiary" THEN r.to ELSE r.from

\* direction filter and error-exclusion filter
Passes(item) ==
    /\ DirectionMatches(item.rec)
    /\ item.kind = "tokenTransfers" \/ item.rec.isError = "0"

\* the passing records, in scan order
PassingList == SelectSeq(ScanList, Passes)

\* the aggregates of the map and of the returned slice
Aggregates ==
    { counterpartyMap[c] : c \in DOMAIN counterpartyMap }
        \cup { result[i] : i \in 1..Len(result) }

\* C1: when one of the three fetches fails, the analysis returns a non-nil
\* error and no aggregate list, in every interleaving of the fetch tasks
C1_FailedFetchFailsAnalysis ==
    (pc = "returned" /\ \E k \in Kinds : gatewayErr[k] # Nil)
        => (retErr # Nil /\ result = <<>>)

\* C2: an aggregate for counterparty C exists only if some fetched record
\* has from = A (case-insensitively) and to = C (beneficiary), or to = A
\* and from = C (payer)
C2_Directionality ==
    \A a \in Aggregates :
        \E i \in 1..Len(ScanList) :
            LET r == ScanList[i].rec
            IN  IF role = "beneficiary"
                THEN Fold(r.from) = Fold(address) /\ r.to = a.Address
                ELSE Fold(r.to) = Fold(address) /\ r.from = a.Address

\* C2 witness: a payer result with two aggregates, from lists that also
\* hold a record going out of the queried address
C2_Witness ==
    /\ Succeeded
    /\ role = "payer"
    /\ Len(result) = 2
    /\ \E i \in 1..Len(ScanList) : Fold(ScanList[i].rec.from) = Fold(address)

\* C3: every record that passes the filter adds exactly one detail, with
\* the record's hash as transactionId, to exactly the aggregate of the
\* record's exact counterparty string; a queried address that differs in
\* letter case only matches
C3_PassingRecordContributesOnce ==
    [][ (ScanStep /\ Passes(ScanList[scanned + 1])) =>
          LET r   == ScanList[scanned + 1].rec
              c   == KeyOf(r)
              old == IF c \in DOMAIN counterpartyMap
                     THEN counterpartyMap[c].Transactions ELSE <<>>
          IN  /\ DOMAIN counterpartyMap' = DOMAIN counterpartyMap \cup {c}
              /\ counterpartyMap'[c].Address = c
              /\ Len(counterpartyMap'[c].Transactions) = Len(old) + 1
              /\ SubSeq(counterpartyMap'[c].Transactions, 1, Len(old)) = old
              /\ counterpartyMap'[c].Transactions[Len(old) + 1].TransactionID = r.hash
              /\ \A x \in DOMAIN counterpartyMap \ {c} :
                    counterpartyMap'[x] = counterpartyMap[x] ]_vars

\* C3 witness: beneficiary analysis of 0xa took in the record sent from 0xA
C3_Witness ==
    /\ role = "beneficiary"
    /\ address = "0xa"
    /\ "0xB" \in DOMAIN counterpartyMap
    /\ \E i \in 1..Len(counterpartyMap["0xB"].Transactions) :
          counterpartyMap["0xB"].Transactions[i].TransactionID = "0xh2"

\* C4: a normal or internal transaction whose isError is not "0" changes
\* no aggregate, whether or not its direction matches
C4_ErrorExclusion ==
    [][ (/\ ScanStep
         /\ ScanList[scanned + 1].kind # "tokenTransfers"
         /\ ScanList[scanned + 1].rec.isError # "0")
            => counterpartyMap' = counterpartyMap ]_vars

\* C4 witness: the loops are past a failed transaction whose direction
\* matches the queried address
C4_Witness ==
    /\ pc = "scan"
    /\ scanned >= 1
    /\ ScanList[scanned].kind # "tokenTransfers"
    /\ ScanList[scanned].rec.isError # "0"
    /\ DirectionMatches(ScanList[scanned].rec)

\* C5: every token transfer whose direction matches the queried address,
\* letter case ignored, adds a detail to the aggregate of its counterparty
C5_TokenTransferAlwaysContributes ==
    [][ (/\ ScanStep
         /\ ScanList[scanned + 1].kind = "tokenTransfers"
         /\ DirectionMatches(ScanList[scanned + 1].rec)) =>
          LET r   == ScanList[scanned + 1].rec
              c   == KeyOf(r)
              old == IF c \in DOMAIN counterpartyMap
                     THEN counterpartyMap[c].Transactions ELSE <<>>
          IN  /\ c \in DOMAIN counterpartyMap'
              /\ Len(counterpartyMap'[c].Transactions) = Len(old) + 1
              /\ counterpartyMap'[c].Transactions[Len(old) + 1].TransactionID = r.hash ]_vars

\* C5 witness: the loops are past a token transfer sent from 0xA, in a
\* beneficiary analysis of 0xa, and its detail is in the map
C5_Witness ==
    /\ role = "beneficiary"
    /\ pc = "scan"
    /\ scanned >= 1
    /\ ScanList[scanned].kind = "tokenTransfers"
    /\ ScanList[scanned].rec.from = "0xA"
    /\ "0xB" \in DOMAIN counterpartyMap

\* the float64 sum of the amounts of a list of details, added left to right
RECURSIVE SumInOrder(_)
SumInOrder(details) ==
    IF details = <<>> THEN Zero
    ELSE FloatAdd(SumInOrder(SubSeq(details, 1, Len(details) - 1)),
                  details[Len(details)].TxAmount)

\* C6: after every step of the aggregation and in the returned result each
\* aggregate's total is the sum of the amounts of its details, taken in
\* encounter order, and a total changes only in a step that appends a detail
C6_TotalIsSumOfDetails ==
    /\ [](\A a \in Aggregates : a.Amount = SumInOrder(a.Transactions))
    /\ [][ \A c \in DOMAIN counterpartyMap \cap DOMAIN counterpartyMap' :
             counterpartyMap'[c].Amount # counterpartyMap[c].Amount =>
                 /\ Len(counterpartyMap'[c].Transactions)
                        = Len(counterpartyMap[c].Transactions) + 1
                 /\ SubSeq(counterpartyMap'[c].Transactions, 1,
                           Len(counterpartyMap[c].Transactions))
                        = counterpartyMap[c].Transactions ]_vars

\* C6 witness: a returned aggregate of three details, 2^53 and twice 1,
\* whose total is 2^53: its additions were rounded
C6_Witness ==
    /\ Succeeded
    /\ \E i \in 1..Len(result) :
          /\ Len(result[i].Transactions) = 3
          /\ result[i].Amount = [hi |-> 1, lo |-> 0]

\* the float64 sum, left to right, of the totals of a slice of aggregates
RECURSIVE SumTotals(_)
SumTotals(aggs) ==
    IF aggs = <<>> THEN Zero
    ELSE FloatAdd(SumTotals(SubSeq(aggs, 1, Len(aggs) - 1)), aggs[Len(aggs)].Amount)

\* the float64 sum, left to right, of the converted amounts of a list of
\* scanned records
RECURSIVE SumConverted(_)
SumConverted(items) ==
    IF items = <<>> THEN Zero
    ELSE FloatAdd(SumConverted(SubSeq(items, 1, Len(items) - 1)),
                  WeiToEther(items[Len(items)].rec.value))

\* the exact sum of the converted amounts of a list of scanned records
RECURSIVE ExactSum(_)
ExactSum(items) ==
    IF items = <<>> THEN Zero
    ELSE LET rest == ExactSum(SubSeq(items, 1, Len(items) - 1))
             x    == WeiToEther(items[Len(items)].rec.value)
         IN  [hi |-> rest.hi + x.hi, lo |-> rest.lo + x.lo]

\* the passing records of counterparty c, in scan order
PassingOf(c) == SelectSeq(PassingList, LAMBDA item : KeyOf(item.rec) = c)

PassingKeys == { KeyOf(PassingList[i].rec) : i \in 1..Len(PassingList) }

\* C7 as stated: the sum of the totals of the returned aggregates equals
\* the sum of the converted amounts of the passing records
C7_GrandTotalEqualsPassingSum ==
    Succeeded => SumTotals(result) = SumConverted(PassingList)

\* C7 amended: each returned aggregate's total is the float64 sum, in scan
\* order, of the converted amounts of exactly the passing records of its
\* counterparty, every counterparty of a passing record has its aggregate,
\* and the sum of the totals equals the sum of the passing records' amounts
\* whenever that sum stays below 2^53, where float64 addition is exact
C7_TotalsCoverPassingRecords ==
    Succeeded =>
        /\ { result[i].Address : i \in 1..Len(result) } = PassingKeys
        /\ \A i \in 1..Len(result) :
              /\ result[i].Amount = SumConverted(PassingOf(result[i].Address))
              /\ Len(result[i].Transactions) = Len(PassingOf(result[i].Address))
        /\ ExactSum(PassingList).hi = 0 =>
              SumTotals(result) = SumConverted(PassingList)

\* C7 witness: two aggregates returned from two passing records, the lists
\* holding a record that fails the filter as well, all sums exact
C7_Witness ==
    /\ Succeeded
    /\ Len(result) = 2
    /\ Len(PassingList) = 2
    /\ Len(ScanList) = 3
    /\ ExactSum(PassingList).hi = 0

\* C8: no two aggregates of a result have the same address string, and the
\* key is the exact counterparty string of the record: counterparties that
\* differ in letter case only get two aggregates, identical ones get one
C8_KeysUniqueAndExact ==
    /\ \A c \in DOMAIN counterpartyMap : counterpartyMap[c].Address = c
    /\ \A i, j \in 1..Len(result) :
          result[i].Address = result[j].Address => i = j
    /\ ScanComplete => DOMAIN counterpartyMap = PassingKeys
    /\ Succeeded =>
          { result[i].Address : i \in 1..Len(result) } = PassingKeys

\* C8 witness: three passing records returned as two aggregates whose
\* addresses differ in letter case only
C8_Witness ==
    /\ Succeeded
    /\ Len(PassingList) = 3
    /\ Len(result) = 2
    /\ result[1].Address # result[2].Address
    /\ Fold(result[1].Address) = Fold(result[2].Address)

\* the counterparties of the passing records, each at its first occurrence
RECURSIVE FirstEncounterOrder(_)
FirstEncounterOrder(items) ==
    IF items = <<>> THEN <<>>
    ELSE LET before == FirstEncounterOrder(SubSeq(items, 1, Len(items) - 1))
             c      == KeyOf(items[Len(items)].rec)
         IN  IF \E i \in 1..Len(before) : before[i] = c THEN before
             ELSE Append(before, c)

\* C9: the returned aggregates are in first-insertion order
C9_FirstInsertionOrder ==
    Succeeded =>
        [i \in 1..Len(result) |-> result[i].Address]
            = FirstEncounterOrder(PassingList)

\* C10: the aggregation run twice on the same three lists and the same
\* address returns identical output
C10_RepeatedAggregationIdentical ==
    (Succeeded /\ run = 2) => result = firstResult

(***************************************************************************)
(* The gateway's answers.                                                  *)
(***************************************************************************)
\* fetch k of the analysis call was answered with body
AnsweredWith(k, body) ==
    /\ answer[k] # Nil
    /\ ~answer[k].transportErr
    /\ answer[k].body = body

\* C11: for each of the three kinds, a fetch answered with status "0" and
\* message "No transactions found" returns an empty list and no error; an
\* analysis call fails only through a fetch whose gateway call returned an
\* error, which such a fetch is not; and a call that succeeds returns the
\* aggregates of the records the other fetches returned, none when all
\* three were answered so
C11_NoRecordsIsEmptySuccess ==
    /\ \A k \in Kinds :
          AnsweredWith(k, NoRecordsBody) =>
              fetched[k] = <<>> /\ gatewayErr[k] = Nil
    /\ (pc = "returned" /\ retErr # Nil) =>
          \E k \in Kinds : gatewayErr[k] # Nil /\ ~AnsweredWith(k, NoRecordsBody)
    /\ Succeeded =>
          /\ { result[i].Address : i \in 1..Len(result) } = PassingKeys
          /\ \A i \in 1..Len(result) :
                Len(result[i].Transactions) = Len(PassingOf(result[i].Address))
          /\ (\A k \in Kinds : AnsweredWith(k, NoRecordsBody)) => result = <<>>

\* C11 witness: the internal and the token fetch were answered with "No
\* transactions found", and the call returned the one aggregate of the
\* normal fetch's record
C11_Witness ==
    /\ AnsweredWith("internalTxs", NoRecordsBody)
    /\ AnsweredWith("tokenTransfers", NoRecordsBody)
    /\ Len(fetched["normalTxs"]) = 1
    /\ Succeeded
    /\ Len(result) = 1

\* the waits before the attempts made so far: k * k seconds before the
\* k-th retry
BackoffSoFar(n) == [i \in 1..n |-> i * i]

\* C12: each of the three fetch operations makes at most 3 HTTP attempts,
\* has waited k * k seconds before its k-th retry, makes no attempt after
\* one that succeeded at transport level, and returns a transport error
\* only after 3 failed attempts
C12_RetryWithBackoff ==
    /\ gw.attempts <= maxRetries
    /\ gw.waits = BackoffSoFar(Len(gw.waits))
    /\ Len(gw.waits) = IF gw.pc = "get" THEN gw.attempts ELSE gw.attempts - 1
    /\ gw.pc = "returned" /\ gw.transportErr =>
          gw.attempts = maxRetries /\ gw.ret.err = ErrFetch(gw.kind)
    /\ gw.pc = "returned" /\ ~gw.transportErr =>
          gw.ret = GatewayCall(gw.kind, FALSE, gw.body)

\* C13: for each of the three kinds, a call answered with status "0" and
\* the result "Max rate limit reached" returns the rate-limit error, which
\* is neither the generic provider error nor the decoding error, after one
\* attempt
C13_RateLimitDistinguished ==
    gw.pc = "returned" /\ ~gw.transportErr /\ gw.body = RateLimitBody =>
        /\ gw.ret.err = ErrRateLimit
        /\ gw.ret.err # ErrUnmarshal
        /\ gw.ret.err.msg # ErrAPI("").msg
        /\ gw.attempts = 1 + Len(gw.waits)

(***************************************************************************)
(* The HTTP layer's responses.                                             *)
(***************************************************************************)
\* a step that writes the response of a request
Responds == Len(http'.codes) = Len(http.codes) + 1

\* the body is an error envelope: message "error", an error text, no data
ErrorEnvelope(body) ==
    /\ body.Message = "error"
    /\ DOMAIN body = {"Message", "Error"}

\* the body is the success envelope of the aggregates aggs: one entry per
\* aggregate, in their order
SuccessEnvelope(body, aggs) ==
    /\ body.Message = "success"
    /\ DOMAIN body = {"Message", "Data"}
    /\ Len(body.Data) = Len(aggs)
    /\ \A i \in 1..Len(aggs) :
          /\ aggs[i].Address \in
                { body.Data[i][f] :
                     f \in DOMAIN body.Data[i]
                              \cap {"BeneficiaryAddress", "PayerAddress"} }
          /\ body.Data[i].Amount = aggs[i].Amount
          /\ body.Data[i].Transactions = aggs[i].Transactions

\* C14: a request to /beneficiary or /payer without address (absent or
\* empty) is answered with HTTP 400 and an error envelope by the step that
\* receives it, which leaves the analysis untouched; the handler is in the
\* core only for a request with an address
C14_MissingAddressIs400 ==
    /\ [][(Responds /\ http'.address = "") =>
             /\ http.pc = "idle"
             /\ http'.pc = "idle"
             /\ http'.path \in {"/beneficiary", "/payer"}
             /\ http'.response.code = StatusBadRequest
             /\ ErrorEnvelope(http'.response.body)
             /\ UNCHANGED analysisVars]_vars
    /\ [](http.pc = "core" => http.address # "")

\* C14 witness: two requests without address, both answered with 400
C14_Witness ==
    /\ http # Nil
    /\ http.address = ""
    /\ http.codes = <<StatusBadRequest, StatusBadRequest>>
    /\ ErrorEnvelope(http.response.body)

\* C15 as stated: the response of a request with an address is HTTP 500
\* with an error envelope exactly when the analysis returned an error, and
\* HTTP 200 with the success envelope of the returned aggregates otherwise
C15_ErrorIffCoreFails ==
    [][(Responds /\ http'.address # "") =>
          /\ (http'.response.code = StatusInternalServerError
                 /\ ErrorEnvelope(http'.response.body)) <=> retErr # Nil
          /\ retErr = Nil =>
                /\ http'.response.code = StatusOK
                /\ SuccessEnvelope(http'.response.body, result)]_vars

\* an amount of the returned aggregates is not finite
SomeAmountInfinite ==
    \E i \in 1..Len(result) :
        \/ IsInf(result[i].Amount)
        \/ \E j \in 1..Len(result[i].Transactions) :
              IsInf(result[i].Transactions[j].TxAmount)

\* C15 amended: the response of a request with an address is HTTP 500 with
\* an error envelope carrying the error's text when the analysis returned
\* an error, HTTP 500 with the error envelope "Error creating response"
\* when it returned aggregates with an amount that is not finite, and HTTP
\* 200 with the success envelope of the returned aggregates, in their
\* order, otherwise; whatever the responses so far, the next request is
\* taken
C15_ErrorOnCoreOrEncodingFailure ==
    /\ [][(Responds /\ http'.address # "") =>
             /\ retErr # Nil =>
                   /\ http'.response.code = StatusInternalServerError
                   /\ ErrorEnvelope(http'.response.body)
                   /\ http'.response.body.Error = ErrorString(retErr)
             /\ (retErr = Nil /\ SomeAmountInfinite) =>
                   /\ http'.response.code = StatusInternalServerError
                   /\ ErrorEnvelope(http'.response.body)
                   /\ http'.response.body.Error =
                         PlainText("Error creating response")
             /\ (retErr = Nil /\ ~SomeAmountInfinite) =>
                   /\ http'.response.code = StatusOK
                   /\ SuccessEnvelope(http'.response.body, result)]_vars
    /\ []((http.pc = "idle" /\ Len(http.codes) < MaxRequests) =>
             ENABLED HandleBeneficiary /\ ENABLED HandlePayer)

\* C15 witness: a request answered with 500 was followed by one answered
\* with 200 and two entries
C15_Witness ==
    /\ http # Nil
    /\ http.codes = <<StatusInternalServerError, StatusOK>>
    /\ http.response.body.Message = "success"
    /\ Len(http.response.body.Data) = 2

(***************************************************************************)
(* The three fetch tasks and the join.                                     *)
(***************************************************************************)
\* C16: the error a fetch task returns to the group is the error its own
\* gateway call returned, so that a task whose call succeeded returns none;
\* and the error the analysis returns is wrapped with the kind of the fetch
\* whose gateway call returned it
C16_ErrorNamesTheFailedFetch ==
    /\ \A k \in Kinds :
          taskRet[k] # Nil =>
              gatewayErr[k] # Nil /\ taskRet[k].cause = gatewayErr[k]
    /\ retErr # Nil =>
          /\ gatewayErr[retErr.wrappedBy] # Nil
          /\ retErr.cause = gatewayErr[retErr.wrappedBy]

\* C17: no variable is written by one fetch task and read by another: the
\* err a task tests after its gateway call is the one that call returned
C17_NoSharedMutableState ==
    \A k \in Kinds : taskPc[k] = "check" => err = gatewayErr[k]

CanProceed(k) ==
    ENABLED (FetchReturn(k) \/ CheckErr(k) \/ TaskReturn(k))

C19_AggregationAfterJoin ==
    /\ []((pc = "scan" \/ scanned > 0 \/ counterpartyMap # EmptyMap \/ Succeeded)
             => \A k \in Kinds : taskPc[k] = "done")
    /\ [][(scanned' # scanned \/ counterpartyMap' # counterpartyMap
              \/ result' # result) =>
             /\ \A k \in Kinds : taskPc[k] = "done"
             /\ UNCHANGED fetchVars
             /\ (scanned' = scanned + 1 \/ scanned' = scanned)]_vars
    /\ [](Succeeded => scanned = Len(ScanList) /\ run = 1)
    /\ [][Succeeded => UNCHANGED vars]_vars

\* C19 witness: a call that followed its three fetch tasks to their end has
\* returned one aggregate
C19_Witness ==
    /\ Succeeded
    /\ \A k \in Kinds : answer[k] # Nil
    /\ Len(result) = 1

\* the details of the passing records of slot k whose counterparty is c,
\* in the order of the slot
SlotDetails(k, c) ==
    LET sel == SelectSeq(fetched[k],
                   LAMBDA rec : /\ Passes([kind |-> k, rec |-> rec])
                                /\ KeyOf(rec) = c)
    IN  [i \in 1..Len(sel) |->
            TxDetails(sel[i].value, sel[i].hash, sel[i].timeStamp)]

\* C20: the transactions of each returned aggregate are the details of the
\* normal transactions, then those of the internal transactions, then
\* those of the token transfers, each in the order of its fetched list
C20_DetailsInEncounterOrder ==
    Succeeded =>
        \A i \in 1..Len(result) :
            result[i].Transactions =
                SlotDetails("normalTxs", result[i].Address)
                \o SlotDetails("internalTxs", result[i].Address)
                \o SlotDetails("tokenTransfers", result[i].Address)

\* C20 witness: an aggregate of two normal transactions, fetched with the
\* later hash first, and of a token transfer
C20_Witness ==
    /\ Succeeded
    /\ Len(fetched["normalTxs"]) = 2
    /\ Len(fetched["tokenTransfers"]) = 1
    /\ \E i \in 1..Len(result) :
          [j \in 1..Len(result[i].Transactions) |->
              result[i].Transactions[j].TransactionID]
             = <<"0xh3", "0xh2", "0xh3">>

(***************************************************************************)
(* Provider failures, malformed fields, termination.                       *)
(***************************************************************************)
\* a failure answer that is neither "No transactions found" nor the
\* rate-limit answer
OtherFailure(body) ==
    /\ body.valid
    /\ body.status = "0"
    /\ body.message # NoTransactionsFound
    /\ ~(body.resultType = "string" /\ body.resultString = MaxRateLimitReached)

\* C21: for each of the three kinds, a call answered with status "0" that
\* is neither the no-records nor the rate-limit answer returns the generic
\* provider error with the provider's text (its message, or the text it
\* sent as result), and the answered attempt is the last one
C21_ProviderErrorVerbatim ==
    (gw.pc = "returned" /\ ~gw.transportErr /\ OtherFailure(gw.body)) =>
        /\ gw.ret.err # Nil
        /\ gw.ret.err.msg = ErrAPI("").msg
        /\ gw.ret.err.detail \in
              {gw.body.message} \cup
              (IF gw.body.resultType = "string" THEN {gw.body.resultString}
               ELSE {})
        /\ gw.attempts = 1 + Len(gw.waits)

\* the detail the step has appended for the record the loops were at
NewDetail ==
    LET c == KeyOf(ScanList[scanned + 1].rec)
    IN  counterpartyMap'[c].Transactions[Len(counterpartyMap'[c].Transactions)]

\* the step has taken the record the loops were at into the aggregate of
\* its counterparty, which it has created if there was none
Contributes ==
    LET c == KeyOf(ScanList[scanned + 1].rec)
    IN  /\ c \in DOMAIN counterpartyMap'
        /\ Len(counterpartyMap'[c].Transactions) =
              1 + (IF c \in DOMAIN counterpartyMap
                   THEN Len(counterpartyMap[c].Transactions) ELSE 0)
        /\ NewDetail.TransactionID = ScanList[scanned + 1].rec.hash

\* C22: a passing record whose timestamp is no signed integer contributes
\* a detail whose date is the record's timestamp string unchanged, and the
\* call goes on to return without error
C22_TimestampFallback ==
    /\ [][(/\ ScanStep
           /\ Passes(ScanList[scanned + 1])
           /\ ~ParsesAsInt64(ScanList[scanned + 1].rec.timeStamp)) =>
             /\ Contributes
             /\ NewDetail.DateTime = ScanList[scanned + 1].rec.timeStamp
             /\ pc' = "scan"]_vars
    /\ [](retErr = Nil)
    /\ [](pc = "returned" => Succeeded /\ scanned = Len(ScanList))

\* C22 witness: the returned aggregate has a detail whose date is the
\* string "not-a-number"
C22_Witness ==
    /\ Succeeded
    /\ \E i \in 1..Len(result) :
       \E j \in 1..Len(result[i].Transactions) :
          /\ result[i].Transactions[j].DateTime = "not-a-number"
          /\ result[i].Transactions[j].TransactionID = "0xm1"

\* C23 as stated: every detail of every aggregate has a non-empty date
C23_DateNeverEmpty ==
    \A a \in Aggregates :
        \A j \in 1..Len(a.Transactions) : a.Transactions[j].DateTime # ""

\* C23 amended: the date of the detail a passing record contributes is
\* empty only if the record's timestamp string is empty; it is the
\* formatted time when the timestamp is a signed integer and the timestamp
\* string otherwise
C23_DateEmptyOnlyForEmptyTimestamp ==
    [][(ScanStep /\ Passes(ScanList[scanned + 1])) =>
          LET ts == ScanList[scanned + 1].rec.timeStamp
          IN  /\ Contributes
              /\ NewDetail.DateTime = "" <=> ts = ""
              /\ ~ParsesAsInt64(ts) => NewDetail.DateTime = ts]_vars

\* C23 witness: the returned aggregates hold a detail with a formatted
\* date and one whose date is the unparsed timestamp string
C23_Witness ==
    /\ Succeeded
    /\ \E i, k \in 1..Len(result) :
       \E j \in 1..Len(result[i].Transactions) :
       \E l \in 1..Len(result[k].Transactions) :
          /\ result[i].Transactions[j].DateTime = "2023-07-22 04:26:40"
          /\ result[k].Transactions[l].DateTime = "not-a-number"

\* C24: a passing record whose value string does not parse contributes a
\* detail with amount zero, creating the aggregate of its counterparty if
\* there is none, and leaves the total of an aggregate there was as it is;
\* the call goes on to return without error
C24_UnparsableValueIsZero ==
    /\ [][(/\ ScanStep
           /\ Passes(ScanList[scanned + 1])
           /\ ~ParsesAsFloat(ScanList[scanned + 1].rec.value)) =>
             LET c == KeyOf(ScanList[scanned + 1].rec)
             IN  /\ Contributes
                 /\ NewDetail.TxAmount = Zero
                 /\ counterpartyMap'[c].Amount =
                       IF c \in DOMAIN counterpartyMap
                       THEN counterpartyMap[c].Amount ELSE Zero
                 /\ pc' = "scan"]_vars
    /\ [](retErr = Nil)

\* C25: every analysis call returns; each fetch is started once and makes
\* no HTTP request after its gateway call has returned, at most 3 requests
\* in all, and the call returns only when each fetch has made a request
\* and is done
C25_Termination ==
    /\ <>(pc = "returned")
    /\ [](\A k \in Kinds : gw[k].attempts <= maxRetries)
    /\ [][\A k \in Kinds :
             taskPc[k] # "fetch" => (taskPc'[k] # "fetch" /\ gw'[k] = gw[k])]_vars
    /\ [](pc = "returned" =>
             /\ \A k \in Kinds : taskPc[k] = "done" /\ gw[k].attempts >= 1
             /\ retErr # Nil \/ Succeeded)

\* C25 witness: the call has returned its result after the normal fetch
\* was answered at its third attempt, having slept 1 s and 4 s
C25_Witness ==
    /\ DOMAIN gw = Kinds
    /\ Succeeded
    /\ Len(result) = 1
    /\ gw["normalTxs"].attempts = 3
    /\ gw["normalTxs"].waits = <<1, 4>>

====
